---------------------------- MODULE Spec2Model ----------------------------
(***************************************************************************)
(* A state-machine model of devel/modules/atmValidate/secondKick.py        *)
(* (GalSim): make_plot builds a turbulence-layer profile, assigns winds    *)
(* from a seeded random stream, sweeps four cutoff scales rendering a      *)
(* Fourier-optics PSF and the analytic "second kick" PSF for each, and     *)
(* saves a 2x4 figure.                                                     *)
(*                                                                         *)
(* Numbers.  Altitudes are IEEE-754 binary64 values; they are modelled     *)
(* bit-exactly as a 53-bit mantissa held in 16-bit limbs (least            *)
(* significant first) and a binary exponent, next to the real number       *)
(* num/den (in units of 0.01 km) the double approximates.  Weights are     *)
(* exact rationals.  A Fried parameter r0 * s^(-3/5) is held by r0 and the *)
(* rational s, so that the power law is exact.  Cutoffs are powers of ten. *)
(***************************************************************************)
EXTENDS Integers, Sequences, FiniteSets, TLC

VARIABLES
    args,           \* the parsed command line (argparse namespace)
    pc,             \* position of make_plot
    err,            \* the exception that ended the run, "" while none
    rng,            \* state of the layer/wind stream `rng` (shared by `u`)
    draws,          \* log of the draws taken from `u`: <<layer, what>>
    alts,           \* uniformly spaced altitudes
    weights,        \* interpolated, then renormalized weights
    spd,            \* wind speeds
    dirn,           \* wind directions
    r0_500,         \* per-layer Fried parameters
    axes,           \* the 2x4 panels of the figure (<<>> before plt.subplots)
    kcrits,         \* the cutoff grid
    r0,             \* net Fried parameter at wavelength lam (line 106)
    icol,           \* loop index of the sweep
    atmRng,         \* state of the screen-stack stream
    atm,            \* the screen stack of the current iteration
    built,          \* log of the arguments of every galsim.Atmosphere call
    fftImg,         \* image of the full simulation
    secondKickImg,  \* image of the analytic approximation
    fftMom,         \* HSM result for fftImg
    secondKickMom,  \* HSM result for secondKickImg
    steps,          \* log of the sweep steps taken: <<icol, step>>
    dirs,           \* directories that exist, as component sequences
    made,           \* directories this run created
    files,          \* files written by savefig
    prev            \* outcome of the previous invocation (repeated runs)

vars == <<args, pc, err, rng, draws, alts, weights, spd, dirn, r0_500, axes,
          kcrits, r0, icol, atmRng, atm, built, fftImg, secondKickImg,
          fftMom, secondKickMom, steps, dirs, made, files, prev>>

-----------------------------------------------------------------------------
(* Bounds of the model                                                     *)

\* layer counts 1..MaxLayers are tried by the profile builder
MaxLayers == 6
\* layer counts 1..MaxSweepLayers are tried by the full run
MaxSweepLayers == 3
\* kmin and kmax range over 10^(3j) micro-units, j in 0..MaxDecade
MaxDecade == 1

-----------------------------------------------------------------------------
(* IEEE-754 binary64 arithmetic on positive values (numpy, line 67)        *)

LimbBase == 65536
NLimbs == 5
MaxShift == 8

BigZero == [i \in 1..NLimbs |-> 0]
\* 2^52 and 2^53 in limbs
Two52 == [i \in 1..NLimbs |-> IF i = 4 THEN 16 ELSE 0]
Two53 == [i \in 1..NLimbs |-> IF i = 4 THEN 32 ELSE 0]

RECURSIVE Pow2(_)
Pow2(s) == IF s = 0 THEN 1 ELSE 2 * Pow2(s - 1)

BigMulSmall(a, k) ==
    LET c[i \in 0..NLimbs] ==
            IF i = 0 THEN 0 ELSE (a[i] * k + c[i - 1]) \div LimbBase
    IN  [i \in 1..NLimbs |-> (a[i] * k + c[i - 1]) % LimbBase]

\* quotient and remainder of a by the small number k
BigDivSmall(a, k) ==
    LET r[i \in 1..(NLimbs + 1)] ==
            IF i = NLimbs + 1 THEN 0 ELSE (r[i + 1] * LimbBase + a[i]) % k
    IN  [q |-> [i \in 1..NLimbs |-> (r[i + 1] * LimbBase + a[i]) \div k],
         r |-> r[1]]

BigInc(a) ==
    LET c[i \in 0..NLimbs] ==
            IF i = 0 THEN 1 ELSE (a[i] + c[i - 1]) \div LimbBase
    IN  [i \in 1..NLimbs |-> (a[i] + c[i - 1]) % LimbBase]

BigLess(a, b) ==
    \E i \in 1..NLimbs :
        /\ a[i] < b[i]
        /\ \A j \in (i + 1)..NLimbs : a[j] = b[j]

BigOdd(a) == a[1] % 2 = 1

\* round to nearest, ties to even: q + r/k
RoundNearestEven(q, r, k) ==
    IF 2 * r > k \/ (2 * r = k /\ BigOdd(q)) THEN BigInc(q) ELSE q

\* the double nearest to p * 2^e, for a mantissa p that is at least 2^52
Normalize(p, e) ==
    LET s  == CHOOSE t \in 0..MaxShift :
                  /\ BigLess(p, BigMulSmall(Two53, Pow2(t)))
                  /\ \A t2 \in 0..(t - 1) :
                        ~BigLess(p, BigMulSmall(Two53, Pow2(t2)))
        qr == BigDivSmall(p, Pow2(s))
        m  == RoundNearestEven(qr.q, qr.r, Pow2(s))
    IN  IF m = Two53 THEN [m |-> Two52, e |-> e + s + 1]
                     ELSE [m |-> m, e |-> e + s]

FloatZero == [m |-> BigZero, e |-> 0]

\* float64 * int64 (the integer is converted exactly)
FloatMulInt(x, k) ==
    IF x.m = BigZero \/ k = 0 THEN FloatZero
    ELSE Normalize(BigMulSmall(x.m, k), x.e)

\* float64 / k for an integer k > 0 and a finite x
FloatDivInt(x, k) ==
    IF x.m = BigZero THEN FloatZero
    ELSE LET t  == CHOOSE u \in 0..MaxShift :
                      /\ ~BigLess(BigDivSmall(BigMulSmall(x.m, Pow2(u)), k).q, Two52)
                      /\ \A u2 \in 0..(u - 1) :
                            BigLess(BigDivSmall(BigMulSmall(x.m, Pow2(u2)), k).q, Two52)
             qr == BigDivSmall(BigMulSmall(x.m, Pow2(t)), k)
             m  == RoundNearestEven(qr.q, qr.r, k)
         IN  IF m = Two53 THEN [m |-> Two52, e |-> x.e - t + 1]
                          ELSE [m |-> m, e |-> x.e - t]

FloatLeq(x, y) ==
    \/ x.m = BigZero
    \/ /\ y.m # BigZero
       /\ \/ x.e < y.e
          \/ x.e = y.e /\ ~BigLess(y.m, x.m)


-----------------------------------------------------------------------------
(* Command line (argparse defaults, lines 176-225), in integer units       *)

DefaultR0_500 == 150        \* mm
DefaultLam == 700           \* nm
DefaultDiam == 836          \* cm
DefaultObscuration == 61    \* percent
DefaultNx == 64             \* pixels
DefaultScale == 40          \* milli-arcsec
DefaultNphot == 3000000
DefaultMaxSpeed == 20       \* m/s

Seeds == {1, 2}
TurbFactors == {1, 2}
MaxSpeeds == {DefaultMaxSpeed, DefaultMaxSpeed \div 2}

\* 10^e, and log10 of a power of ten
RECURSIVE Pow10(_)
Pow10(e) == IF e = 0 THEN 1 ELSE 10 * Pow10(e - 1)

RECURSIVE Log10(_)
Log10(k) == IF k = 1 THEN 0 ELSE 1 + Log10(k \div 10)

\* cutoffs offered to --kmin and --kmax, in units of 10^-6
Cutoffs == {Pow10(3 * j) : j \in 0..MaxDecade}

\* --outfile, split at the path separators
Outfiles == {<<"output", "secondKick.png">>,
             <<"secondKick.png">>,
             <<"plots", "run1", "secondKick.png">>}

Namespace(seed, nlayers, turb_factor, max_speed, kmin, kmax, outfile) ==
    [seed |-> seed, r0_500 |-> DefaultR0_500, turb_factor |-> turb_factor,
     nlayers |-> nlayers, max_speed |-> max_speed, kmin |-> kmin,
     kmax |-> kmax, nphot |-> DefaultNphot, lam |-> DefaultLam,
     diam |-> DefaultDiam, obscuration |-> DefaultObscuration,
     nx |-> DefaultNx, scale |-> DefaultScale, outfile |-> outfile]

-----------------------------------------------------------------------------
(* galsim.BaseDeviate / UniformDeviate: a deterministic stream             *)

RngMod == 16
RngMul == 5
RngInc == 3

\* galsim.BaseDeviate(seed)
BaseDeviate(seed) == seed % RngMod

\* one call u(): the stream advances; the value drawn is state / RngMod
Advance(state) == (RngMul * state + RngInc) % RngMod

RECURSIVE AdvanceBy(_, _)
AdvanceBy(state, n) == IF n = 0 THEN state ELSE AdvanceBy(Advance(state), n - 1)

-----------------------------------------------------------------------------
(* Layer profile (lines 61-96)                                             *)

\* altitudes in 0.01 km, weights in 0.001
Ellerbroek_alts == <<0, 258, 516, 773, 1289, 1546>>
Ellerbroek_weights == <<652, 172, 55, 25, 74, 22>>

\* the literal 15.46 as the double Python parses it to: 8703206279893484 * 2^-49
MaxAltDouble == [m |-> <<20972, 7864, 60293, 30, 0>>, e |-> -49]

RECURSIVE NpMax(_)
NpMax(xs) ==
    IF Len(xs) = 1 THEN xs[1]
    ELSE LET t == NpMax(Tail(xs)) IN IF xs[1] > t THEN xs[1] ELSE t

NanAlt == [nan |-> TRUE, m |-> BigZero, e |-> 0, num |-> 0, den |-> 1]

\* line 67: np.max(Ellerbroek_alts)*np.arange(nlayers)/(nlayers-1).  numpy
\* does not raise on a zero divisor: 0.0/0 is nan (with a RuntimeWarning).
ArangeAlts(nlayers) ==
    [i \in 1..nlayers |->
        IF nlayers - 1 = 0 THEN NanAlt
        ELSE LET f == FloatDivInt(FloatMulInt(MaxAltDouble, i - 1), nlayers - 1)
             IN  [nan |-> FALSE, m |-> f.m, e |-> f.e,
                  num |-> NpMax(Ellerbroek_alts) * (i - 1), den |-> nlayers - 1]]

\* the altitude lies in the table's domain [x_min, x_max]
InDomain(a) ==
    /\ ~a.nan
    /\ FloatLeq(FloatZero, [m |-> a.m, e |-> a.e])
    /\ FloatLeq([m |-> a.m, e |-> a.e], MaxAltDouble)

\* least common multiple of the table's segment widths 258, 257, 516
WidthLcm == 132612

\* galsim.LookupTable(..., interpolant='linear') at the real altitude
\* num/den; the value is wnum / (den * WidthLcm)
LookupLinear(a) ==
    IF a.nan THEN [nan |-> TRUE, num |-> 0, den |-> 1]
    ELSE LET X == Ellerbroek_alts
             W == Ellerbroek_weights
             j == CHOOSE k \in 1..(Len(X) - 1) :
                      /\ X[k] * a.den <= a.num
                      /\ \A k2 \in (k + 1)..(Len(X) - 1) : X[k2] * a.den > a.num
         IN  [nan |-> FALSE,
              num |-> W[j] * a.den * WidthLcm
                      + (W[j + 1] - W[j]) * (a.num - X[j] * a.den)
                        * (WidthLcm \div (X[j + 1] - X[j])),
              den |-> a.den * WidthLcm]

RECURSIVE SumNum(_)
SumNum(ws) == IF Len(ws) = 0 THEN 0 ELSE ws[1].num + SumNum(Tail(ws))

\* the weights as interpolated, the renormalization left out
Renormalize_Skipped(ws) ==
    [i \in 1..Len(ws) |-> [nan |-> ws[i].nan, num |-> ws[i].num, den |-> ws[i].den]]

\* line 69: weights /= sum(weights)
Renormalize(ws) ==
    IF \E i \in 1..Len(ws) : ws[i].nan
    THEN [i \in 1..Len(ws) |-> [nan |-> TRUE, num |-> 0, den |-> 1]]
    ELSE [i \in 1..Len(ws) |->
             [nan |-> FALSE, num |-> ws[i].num, den |-> SumNum(ws)]]

\* x * y**(-3./5) for a Fried parameter x and a rational y
ScalePow35(x, y) ==
    [nan |-> x.nan \/ y.nan, base |-> x.base,
     sfn |-> x.sfn * y.num, sfd |-> x.sfd * y.den]

Fried(base) == [nan |-> FALSE, base |-> base, sfn |-> 1, sfd |-> 1]

\* lines 49-50
Start ==
    /\ pc = "start"
    /\ rng' = BaseDeviate(args.seed)
    /\ pc' = "alts"
    /\ UNCHANGED <<args, err, draws, alts, weights, spd, dirn, r0_500, axes,
                   kcrits, r0, icol, atmRng, atm, built, fftImg,
                   secondKickImg, fftMom, secondKickMom, steps, dirs, made,
                   files, prev>>

\* line 67
ComputeAlts ==
    /\ pc = "alts"
    /\ alts' = ArangeAlts(args.nlayers)
    /\ pc' = "interp"
    /\ UNCHANGED <<args, err, rng, draws, weights, spd, dirn, r0_500, axes,
                   kcrits, r0, icol, atmRng, atm, built, fftImg,
                   secondKickImg, fftMom, secondKickMom, steps, dirs, made,
                   files, prev>>

\* line 68.  What the table does with an argument outside its domain (a nan,
\* or a value beyond 15.46) is the library's choice: it raises or it answers.
Interpolate ==
    /\ pc = "interp"
    /\ \/ /\ weights' = [i \in 1..Len(alts) |-> LookupLinear(alts[i])]
          /\ pc' = "renorm"
          /\ err' = err
       \/ /\ \E i \in 1..Len(alts) : ~InDomain(alts[i])
          /\ weights' = weights
          /\ pc' = "aborted"
          /\ err' = "RangeError"
    /\ UNCHANGED <<args, rng, draws, alts, spd, dirn, r0_500, axes,
                   kcrits, r0, icol, atmRng, atm, built, fftImg,
                   secondKickImg, fftMom, secondKickMom, steps, dirs, made,
                   files, prev>>

\* line 69
NormalizeWeights ==
    /\ pc = "renorm"
    /\ weights' = Renormalize(weights)
    /\ pc' = "wind"
    /\ UNCHANGED <<args, err, rng, draws, alts, spd, dirn, r0_500, axes,
                   kcrits, r0, icol, atmRng, atm, built, fftImg,
                   secondKickImg, fftMom, secondKickMom, steps, dirs, made,
                   files, prev>>

\* the loop body with the direction drawn before the speed
WindLayer_DirectionFirst ==
    /\ pc = "wind"
    /\ Len(spd) < args.nlayers
    /\ LET i  == Len(spd) + 1
           s1 == Advance(rng)
           s2 == Advance(s1)
       IN  /\ dirn' = Append(dirn, [num |-> s1 * 360, den |-> RngMod])
           /\ spd' = Append(spd, [num |-> s2 * args.max_speed, den |-> RngMod])
           /\ r0_500' = Append(r0_500, ScalePow35(Fried(args.r0_500), weights[i]))
           /\ rng' = s2
           /\ draws' = draws \o <<(<<i, "dirn">>), (<<i, "spd">>)>>
    /\ UNCHANGED <<args, pc, err, alts, weights, axes,
                   kcrits, r0, icol, atmRng, atm, built, fftImg,
                   secondKickImg, fftMom, secondKickMom, steps, dirs, made,
                   files, prev>>

\* lines 80-93, one pass of the loop for layer i = Len(spd) + 1
WindLayer ==
    /\ pc = "wind"
    /\ Len(spd) < args.nlayers
    /\ LET i  == Len(spd) + 1
           s1 == Advance(rng)
           s2 == Advance(s1)
       IN  /\ spd' = Append(spd, [num |-> s1 * args.max_speed, den |-> RngMod])
           /\ dirn' = Append(dirn, [num |-> s2 * 360, den |-> RngMod])
           /\ r0_500' = Append(r0_500, ScalePow35(Fried(args.r0_500), weights[i]))
           /\ rng' = s2
           /\ draws' = draws \o <<(<<i, "spd">>), (<<i, "dirn">>)>>
    /\ UNCHANGED <<args, pc, err, alts, weights, axes,
                   kcrits, r0, icol, atmRng, atm, built, fftImg,
                   secondKickImg, fftMom, secondKickMom, steps, dirs, made,
                   files, prev>>

\* line 96
Fudge ==
    /\ pc = "wind"
    /\ Len(spd) = args.nlayers
    /\ r0_500' = [i \in 1..Len(r0_500) |->
                     ScalePow35(r0_500[i],
                                [nan |-> FALSE, num |-> args.turb_factor, den |-> 1])]
    /\ pc' = "fig"
    /\ UNCHANGED <<args, err, rng, draws, alts, weights, spd, dirn, axes,
                   kcrits, r0, icol, atmRng, atm, built, fftImg,
                   secondKickImg, fftMom, secondKickMom, steps, dirs, made,
                   files, prev>>

-----------------------------------------------------------------------------
(* Invocation                                                              *)

\* the state make_plot starts from, for a namespace a and a file system d
Fresh(a, d) ==
    /\ args = a
    /\ pc = "start"
    /\ err = ""
    /\ rng = 0
    /\ draws = <<>>
    /\ alts = <<>>
    /\ weights = <<>>
    /\ spd = <<>>
    /\ dirn = <<>>
    /\ r0_500 = <<>>
    /\ axes = <<>>
    /\ kcrits = <<>>
    /\ r0 = <<>>
    /\ icol = 0
    /\ atmRng = 0
    /\ atm = <<>>
    /\ built = <<>>
    /\ fftImg = <<>>
    /\ secondKickImg = <<>>
    /\ fftMom = <<>>
    /\ secondKickMom = <<>>
    /\ steps = <<>>
    /\ dirs = d
    /\ made = {}
    /\ files = {}

ProfileArgs ==
    {Namespace(s, n, t, m, Pow10(0), Pow10(0), <<"output", "secondKick.png">>) :
        s \in Seeds, n \in 1..MaxLayers, t \in TurbFactors, m \in MaxSpeeds}

\* the script is invoked a second time once the profile of the first
\* invocation is complete (or the invocation has ended in an exception)
Reinvoke ==
    /\ pc \in {"fig", "aborted"}
    /\ prev = <<>>
    /\ prev' = <<[args |-> args, pc |-> pc, spd |-> spd, dirn |-> dirn,
                  draws |-> draws]>>
    /\ \E a \in ProfileArgs :
         /\ args' = a
         /\ pc' = "start"
         /\ err' = ""
         /\ rng' = 0
         /\ draws' = <<>>
         /\ alts' = <<>>
         /\ weights' = <<>>
         /\ spd' = <<>>
         /\ dirn' = <<>>
         /\ r0_500' = <<>>
    /\ UNCHANGED <<axes, kcrits, r0, icol, atmRng, atm, built, fftImg,
                   secondKickImg, fftMom, secondKickMom, steps, dirs, made,
                   files>>

InitProfile ==
    /\ prev = <<>>
    /\ \E a \in ProfileArgs : Fresh(a, {})

NextProfile ==
    \/ Start
    \/ ComputeAlts
    \/ Interpolate
    \/ NormalizeWeights
    \/ WindLayer
    \/ Fudge
    \/ Reinvoke

\* lines 47-96 of make_plot, invoked twice
SpecProfile == InitProfile /\ [][NextProfile]_vars

-----------------------------------------------------------------------------
(* Cutoff sweep (lines 99-159)                                             *)

NumRows == 2
NumCols == 4

EmptyPanel == [img |-> <<>>, texts |-> <<>>, title |-> <<>>, ylabel |-> "",
               ticks |-> FALSE]

\* np.linspace(start, stop, num, endpoint=False)
Linspace_NoEndpoint(start, stop, num) ==
    [i \in 1..num |-> start + (i - 1) * ((stop - start) \div num)]

\* np.linspace(start, stop, num): num points, the last one set to stop
Linspace(start, stop, num) ==
    [i \in 1..num |->
        IF i = num THEN stop
        ELSE start + (i - 1) * ((stop - start) \div (num - 1))]

\* np.logspace(start, stop, num) == 10 ** np.linspace(start, stop, num)
Logspace(start, stop, num) ==
    [i \in 1..num |-> Pow10(Linspace(start, stop, num)[i])]

\* args.r0_500*(args.lam/500.0)**(6./5), lines 106 and 133
R0AtLam(a) == [base |-> a.r0_500, lam |-> a.lam]

\* "{:6.3f}".format(x) and "{:4.2f}".format(x)
Format(spec, x) == [fmt |-> spec, of |-> x]

\* what one step of the sweep leaves in the log
Step(i, name, ok) == [icol |-> i, step |-> name, ok |-> ok]

Raise(e) ==
    /\ pc' = "aborted"
    /\ err' = e

\* lines 99-103
Subplots ==
    /\ pc = "fig"
    /\ axes' = [r \in 1..NumRows |->
                  [c \in 1..NumCols |-> [EmptyPanel EXCEPT !.ticks = TRUE]]]
    /\ pc' = "kcrits"
    /\ UNCHANGED <<args, err, rng, draws, alts, weights, spd, dirn, r0_500,
                   kcrits, r0, icol, atmRng, atm, built, fftImg,
                   secondKickImg, fftMom, secondKickMom, steps, dirs, made,
                   files, prev>>

\* lines 105-107 (the loop is entered: kcrits is never empty)
Kcrits ==
    /\ pc = "kcrits"
    /\ kcrits' = Logspace(Log10(args.kmin), Log10(args.kmax), NumCols)
    /\ r0' = <<R0AtLam(args)>>
    /\ icol' = 0
    /\ pc' = "build"
    /\ UNCHANGED <<args, err, rng, draws, alts, weights, spd, dirn, r0_500,
                   axes, atmRng, atm, built, fftImg,
                   secondKickImg, fftMom, secondKickMom, steps, dirs, made,
                   files, prev>>

\* the screen-stack stream created once, before the loop, and carried on
Build_SharedStream ==
    /\ pc = "build"
    /\ \/ LET fresh == IF icol = 0 THEN BaseDeviate(args.seed + 1) ELSE atmRng
              call  == [r0_500 |-> r0_500, speed |-> spd, direction |-> dirn,
                        altitude |-> alts, rng |-> fresh]
          IN  /\ built' = Append(built, call)
              /\ atm' = <<[layers |-> call.r0_500,
                           kmin |-> [kcrit |-> kcrits[icol + 1], r0 |-> r0[1]],
                           aper |-> [diam |-> args.diam, lam |-> args.lam,
                                     obscuration |-> args.obscuration]]>>
              /\ atmRng' = AdvanceBy(fresh, args.nlayers)
              /\ steps' = Append(steps, Step(icol, "build", TRUE))
              /\ pc' = "renderA"
              /\ err' = err
       \/ /\ Raise("GalSimError")
          /\ UNCHANGED <<built, atm, atmRng, steps>>
    /\ UNCHANGED <<args, rng, draws, alts, weights, spd, dirn, r0_500,
                   axes, kcrits, r0, icol, fftImg,
                   secondKickImg, fftMom, secondKickMom, dirs, made,
                   files, prev>>

\* lines 108-125: a fresh stream, the screen stack, its instantiation (one
\* screen per layer drawn from the stream) and the aperture
Build ==
    /\ pc = "build"
    /\ \/ LET fresh == BaseDeviate(args.seed + 1)
              call  == [r0_500 |-> r0_500, speed |-> spd, direction |-> dirn,
                        altitude |-> alts, rng |-> fresh]
          IN  /\ built' = Append(built, call)
              /\ atm' = <<[layers |-> call.r0_500,
                           kmin |-> [kcrit |-> kcrits[icol + 1], r0 |-> r0[1]],
                           aper |-> [diam |-> args.diam, lam |-> args.lam,
                                     obscuration |-> args.obscuration]]>>
              /\ atmRng' = AdvanceBy(fresh, args.nlayers)
              /\ steps' = Append(steps, Step(icol, "build", TRUE))
              /\ pc' = "renderA"
              /\ err' = err
       \/ /\ Raise("GalSimError")
          /\ UNCHANGED <<built, atm, atmRng, steps>>
    /\ UNCHANGED <<args, rng, draws, alts, weights, spd, dirn, r0_500,
                   axes, kcrits, r0, icol, fftImg,
                   secondKickImg, fftMom, secondKickMom, dirs, made,
                   files, prev>>

\* lines 127-131
RenderFFT ==
    /\ pc = "renderA"
    /\ \/ /\ fftImg' = <<[method |-> "fft", lam |-> args.lam,
                          diam |-> atm[1].aper.diam,
                          obscuration |-> atm[1].aper.obscuration,
                          nx |-> args.nx, ny |-> args.nx, scale |-> args.scale,
                          kcrit |-> atm[1].kmin.kcrit, r0 |-> atm[1].kmin.r0,
                          layers |-> atm[1].layers]>>
          /\ steps' = Append(steps, Step(icol, "renderA", TRUE))
          /\ pc' = "renderB"
          /\ err' = err
       \/ /\ Raise("GalSimError")
          /\ UNCHANGED <<fftImg, steps>>
    /\ UNCHANGED <<args, rng, draws, alts, weights, spd, dirn, r0_500,
                   axes, kcrits, r0, icol, atmRng, atm, built,
                   secondKickImg, fftMom, secondKickMom, dirs, made,
                   files, prev>>

\* the analytic approximation given the Fried parameter at 500 nm
RenderSecondKick_R0At500 ==
    /\ pc = "renderB"
    /\ \/ /\ secondKickImg' = <<[method |-> "phot", lam |-> args.lam,
                                 diam |-> args.diam,
                                 obscuration |-> args.obscuration,
                                 nx |-> args.nx, ny |-> args.nx,
                                 scale |-> args.scale,
                                 kcrit |-> kcrits[icol + 1],
                                 r0 |-> [base |-> args.r0_500, lam |-> 500],
                                 n_photons |-> args.nphot]>>
          /\ steps' = Append(steps, Step(icol, "renderB", TRUE))
          /\ pc' = "measureA"
          /\ err' = err
       \/ /\ Raise("GalSimError")
          /\ UNCHANGED <<secondKickImg, steps>>
    /\ UNCHANGED <<args, rng, draws, alts, weights, spd, dirn, r0_500,
                   axes, kcrits, r0, icol, atmRng, atm, built, fftImg,
                   fftMom, secondKickMom, dirs, made, files, prev>>

\* lines 133-137
RenderSecondKick ==
    /\ pc = "renderB"
    /\ \/ /\ secondKickImg' = <<[method |-> "phot", lam |-> args.lam,
                                 diam |-> args.diam,
                                 obscuration |-> args.obscuration,
                                 nx |-> args.nx, ny |-> args.nx,
                                 scale |-> args.scale,
                                 kcrit |-> kcrits[icol + 1],
                                 r0 |-> R0AtLam(args),
                                 n_photons |-> args.nphot]>>
          /\ steps' = Append(steps, Step(icol, "renderB", TRUE))
          /\ pc' = "measureA"
          /\ err' = err
       \/ /\ Raise("GalSimError")
          /\ UNCHANGED <<secondKickImg, steps>>
    /\ UNCHANGED <<args, rng, draws, alts, weights, spd, dirn, r0_500,
                   axes, kcrits, r0, icol, atmRng, atm, built, fftImg,
                   fftMom, secondKickMom, dirs, made, files, prev>>

\* galsim.hsm.FindAdaptiveMom(img) when it converges
ShapeData(img) == [moments_sigma |-> [sigma_of |-> img.method, kcrit |-> img.kcrit]]

\* the fit without the try/except around it
MeasureFFT_NoCatch ==
    /\ pc = "measureA"
    /\ \/ /\ fftMom' = <<ShapeData(fftImg[1])>>
          /\ steps' = Append(steps, Step(icol, "measureA", TRUE))
          /\ pc' = "measureB"
          /\ err' = err
       \/ /\ Raise("RuntimeError")
          /\ UNCHANGED <<fftMom, steps>>
    /\ UNCHANGED <<args, rng, draws, alts, weights, spd, dirn, r0_500,
                   axes, kcrits, r0, icol, atmRng, atm, built, fftImg,
                   secondKickImg, secondKickMom, dirs, made, files, prev>>

\* lines 139-142: the fit converges, or its RuntimeError is caught
MeasureFFT ==
    /\ pc = "measureA"
    /\ \E ok \in BOOLEAN :
         /\ fftMom' = IF ok THEN <<ShapeData(fftImg[1])>> ELSE <<>>
         /\ steps' = Append(steps, Step(icol, "measureA", ok))
    /\ pc' = "measureB"
    /\ UNCHANGED <<args, err, rng, draws, alts, weights, spd, dirn, r0_500,
                   axes, kcrits, r0, icol, atmRng, atm, built, fftImg,
                   secondKickImg, secondKickMom, dirs, made, files, prev>>

\* lines 144-147
MeasureSecondKick ==
    /\ pc = "measureB"
    /\ \E ok \in BOOLEAN :
         /\ secondKickMom' = IF ok THEN <<ShapeData(secondKickImg[1])>> ELSE <<>>
         /\ steps' = Append(steps, Step(icol, "measureB", ok))
    /\ pc' = "collect"
    /\ UNCHANGED <<args, err, rng, draws, alts, weights, spd, dirn, r0_500,
                   axes, kcrits, r0, icol, atmRng, atm, built, fftImg,
                   secondKickImg, fftMom, dirs, made, files, prev>>

\* ax.text(0.5, 0.9, "{:6.3f}".format(mom.moments_sigma), ...) unless mom is None
Annotate(panel, mom) ==
    IF mom # <<>>
    THEN [panel EXCEPT !.texts = Append(@, Format("6.3f", mom[1].moments_sigma))]
    ELSE panel

\* the loop leaving one column early
Collect_StopsEarly ==
    /\ pc = "collect"
    /\ LET c  == icol + 1
           p0 == [axes[1][c] EXCEPT !.img = <<fftImg[1]>>]
           p1 == [axes[2][c] EXCEPT !.img = <<secondKickImg[1]>>]
           q0 == [Annotate(p0, fftMom) EXCEPT
                     !.title = <<Format("4.2f", kcrits[c])>>]
           q1 == Annotate(p1, secondKickMom)
       IN  axes' = [axes EXCEPT ![1][c] = q0, ![2][c] = q1]
    /\ steps' = Append(steps, Step(icol, "collect", TRUE))
    /\ icol' = icol + 1
    /\ pc' = IF icol + 1 < Len(kcrits) - 1 THEN "build" ELSE "labels"
    /\ UNCHANGED <<args, err, rng, draws, alts, weights, spd, dirn, r0_500,
                   kcrits, r0, atmRng, atm, built, fftImg,
                   secondKickImg, fftMom, secondKickMom, dirs, made,
                   files, prev>>

\* lines 149-159, and the step of the for loop
Collect ==
    /\ pc = "collect"
    /\ LET c  == icol + 1
           p0 == [axes[1][c] EXCEPT !.img = <<fftImg[1]>>]
           p1 == [axes[2][c] EXCEPT !.img = <<secondKickImg[1]>>]
           q0 == [Annotate(p0, fftMom) EXCEPT
                     !.title = <<Format("4.2f", kcrits[c])>>]
           q1 == Annotate(p1, secondKickMom)
       IN  axes' = [axes EXCEPT ![1][c] = q0, ![2][c] = q1]
    /\ steps' = Append(steps, Step(icol, "collect", TRUE))
    /\ icol' = icol + 1
    /\ pc' = IF icol + 1 < Len(kcrits) THEN "build" ELSE "labels"
    /\ UNCHANGED <<args, err, rng, draws, alts, weights, spd, dirn, r0_500,
                   kcrits, r0, atmRng, atm, built, fftImg,
                   secondKickImg, fftMom, secondKickMom, dirs, made,
                   files, prev>>

-----------------------------------------------------------------------------
(* Figure assembly and output (lines 161-169)                              *)

\* lines 161-164
Labels ==
    /\ pc = "labels"
    /\ axes' = [axes EXCEPT ![1][1].ylabel = "FFT", ![2][1].ylabel = "2nd kick"]
    /\ pc' = "mkdir"
    /\ UNCHANGED <<args, err, rng, draws, alts, weights, spd, dirn, r0_500,
                   kcrits, r0, icol, atmRng, atm, built, fftImg,
                   secondKickImg, fftMom, secondKickMom, steps, dirs, made,
                   files, prev>>

\* os.path.split(path)[0]: everything before the last component; '' is <<>>
Dirname(path) == SubSeq(path, 1, Len(path) - 1)

\* os.path.exists(d) for a relative path; os.path.exists('') is False
Exists(d, fs) == d # <<>> /\ d \in fs

\* os.mkdir(d) finds the directory it is to create d in: the working
\* directory for a single component, else the parent, which must exist
MkdirFindsParent(d, fs) ==
    /\ d # <<>>
    /\ Len(d) > 1 => Dirname(d) \in fs

\* lines 166-168
MakeDir ==
    /\ pc = "mkdir"
    /\ LET dirname == Dirname(args.outfile)
       IN  IF Exists(dirname, dirs)
           THEN /\ pc' = "save"
                /\ UNCHANGED <<dirs, made, err>>
           ELSE IF ~MkdirFindsParent(dirname, dirs)
           THEN /\ Raise("FileNotFoundError")
                /\ UNCHANGED <<dirs, made>>
           ELSE \/ /\ dirs' = dirs \cup {dirname}
                   /\ made' = made \cup {dirname}
                   /\ pc' = "save"
                   /\ err' = err
                \/ /\ Raise("PermissionError")
                   /\ UNCHANGED <<dirs, made>>
    /\ UNCHANGED <<args, rng, draws, alts, weights, spd, dirn, r0_500,
                   axes, kcrits, r0, icol, atmRng, atm, built, fftImg,
                   secondKickImg, fftMom, secondKickMom, steps,
                   files, prev>>

\* line 169
Save ==
    /\ pc = "save"
    /\ \/ /\ files' = files \cup {args.outfile}
          /\ pc' = "done"
          /\ err' = err
       \/ /\ Raise("OSError")
          /\ files' = files
    /\ UNCHANGED <<args, rng, draws, alts, weights, spd, dirn, r0_500,
                   axes, kcrits, r0, icol, atmRng, atm, built, fftImg,
                   secondKickImg, fftMom, secondKickMom, steps, dirs, made,
                   prev>>

-----------------------------------------------------------------------------
(* The full run                                                            *)

\* the directories of d and of its ancestors that may exist before the run
Prefixes(d) == {SubSeq(d, 1, k) : k \in 1..Len(d)}
InitialDirs(outfile) ==
    {Prefixes(SubSeq(outfile, 1, k)) : k \in 0..(Len(outfile) - 1)}

\* the command lines tried with every cutoff range, the output directory
\* being absent
ArgsByCutoff ==
    {Namespace(s, n, t, DefaultMaxSpeed, k1, k2, <<"output", "secondKick.png">>) :
        s \in Seeds, n \in 1..MaxSweepLayers, t \in TurbFactors,
        k1 \in Cutoffs, k2 \in Cutoffs}

\* the command lines tried with every output path and every state of the
\* file system, over a range of three decades
ArgsByPath ==
    {Namespace(s, n, t, DefaultMaxSpeed, Pow10(0), Pow10(3), o) :
        s \in Seeds, n \in 1..MaxSweepLayers, t \in TurbFactors,
        o \in Outfiles}

Init ==
    /\ prev = <<>>
    /\ \/ \E a \in ArgsByCutoff : Fresh(a, {})
       \/ \E a \in ArgsByPath : \E d \in InitialDirs(a.outfile) : Fresh(a, d)

Next ==
    \/ Start
    \/ ComputeAlts
    \/ Interpolate
    \/ NormalizeWeights
    \/ WindLayer
    \/ Fudge
    \/ Subplots
    \/ Kcrits
    \/ Build
    \/ RenderFFT
    \/ RenderSecondKick
    \/ MeasureFFT
    \/ MeasureSecondKick
    \/ Collect
    \/ Labels
    \/ MakeDir
    \/ Save

\* make_plot(args), lines 47-169
Spec == Init /\ [][Next]_vars

-----------------------------------------------------------------------------
(* Properties                                                              *)

StepNames == <<"build", "renderA", "renderB", "measureA", "measureB", "collect">>
StepsPerColumn == Len(StepNames)

\* the sweep step `name` of column c has been taken (and, for a measurement,
\* has converged)
Taken(c, name) ==
    \E i \in 1..Len(steps) : steps[i].icol = c /\ steps[i].step = name
Converged(c, name) ==
    \E i \in 1..Len(steps) :
        steps[i].icol = c /\ steps[i].step = name /\ steps[i].ok

LastStep == IF steps = <<>> THEN "" ELSE steps[Len(steps)].step
SweepComplete == Len(steps) = StepsPerColumn * NumCols

RECURSIVE SumSfn(_)
SumSfn(ls) == IF Len(ls) = 0 THEN 0 ELSE ls[1].sfn + SumSfn(Tail(ls))

\* C1: a failed size measurement is recorded as "no measurement" for that
\* image only: it never ends the run, the step after it is taken as after a
\* converged one, and once the column is collected both panels hold their
\* image and a panel is annotated exactly when its own measurement converged.
C1_MeasurementFailureIsLocal ==
    /\ err # "RuntimeError"
    /\ LastStep = "measureA" => pc = "measureB"
    /\ LastStep = "measureB" => pc = "collect"
    /\ pc = "collect" =>
          /\ (fftMom = <<>>) <=> ~Converged(icol, "measureA")
          /\ (secondKickMom = <<>>) <=> ~Converged(icol, "measureB")
    /\ \A c \in 0..(NumCols - 1) :
          Taken(c, "collect") =>
             /\ axes[1][c + 1].img # <<>>
             /\ axes[1][c + 1].img[1].method = "fft"
             /\ axes[2][c + 1].img # <<>>
             /\ axes[2][c + 1].img[1].method = "phot"
             /\ axes[1][c + 1].texts =
                   IF Converged(c, "measureA")
                   THEN <<Format("6.3f", ShapeData(axes[1][c + 1].img[1]).moments_sigma)>>
                   ELSE <<>>
             /\ axes[2][c + 1].texts =
                   IF Converged(c, "measureB")
                   THEN <<Format("6.3f", ShapeData(axes[2][c + 1].img[1]).moments_sigma)>>
                   ELSE <<>>
    /\ pc = "done" =>
          /\ \A c \in 0..(NumCols - 1) : Taken(c, "collect")
          /\ args.outfile \in files

\* the full-simulation fit of the first column failed, that of the analytic
\* image converged, and the run went on to save the figure
C1_Witness ==
    /\ pc = "done"
    /\ args.nlayers >= 2
    /\ args.outfile \in files
    /\ ~Converged(0, "measureA")
    /\ Converged(0, "measureB")
    /\ axes[1][1].img # <<>>
    /\ axes[1][1].texts = <<>>
    /\ axes[2][1].texts # <<>>
    /\ Converged(NumCols - 1, "measureA")

\* C2: with nlayers = 1 the altitude computation raises a division-by-zero
\* error: the run is either still before that computation or has ended in
\* that error, with no profile, no sweep and no file.
C2_SingleLayerRaises ==
    args.nlayers = 1 =>
       /\ \/ pc \in {"start", "alts"}
          \/ pc = "aborted" /\ err = "ZeroDivisionError"
       /\ alts = <<>>
       /\ steps = <<>>
       /\ files = {}

C4_ProfileHasNRecords ==
    args.nlayers >= 2 =>
       /\ pc \in {"wind", "fig"} =>
             /\ Len(weights) = args.nlayers
             /\ \A i \in 1..Len(weights) :
                   /\ ~weights[i].nan
                   /\ weights[i].num > 0
                   /\ weights[i].den = SumNum(weights)
       /\ pc = "fig" =>
             /\ Len(alts) = args.nlayers
             /\ Len(spd) = args.nlayers
             /\ Len(dirn) = args.nlayers
             /\ Len(r0_500) = args.nlayers

C4_Witness ==
    /\ pc = "fig"
    /\ args.nlayers >= 3
    /\ Len(r0_500) = args.nlayers
    /\ SumNum(weights) = weights[1].den

\* C5: for n >= 2 layers the altitudes are non-decreasing, evenly spaced,
\* start at 0 and end at exactly the largest reference altitude, so that
\* every one of them lies in the domain of the reference table.
C5_AltitudesSpanTable ==
    (args.nlayers >= 2 /\ alts # <<>>) =>
       /\ Len(alts) = args.nlayers
       /\ \A i \in 1..(Len(alts) - 1) :
             /\ FloatLeq([m |-> alts[i].m, e |-> alts[i].e],
                         [m |-> alts[i + 1].m, e |-> alts[i + 1].e])
             /\ alts[i + 1].num - alts[i].num = alts[2].num - alts[1].num
       /\ alts[1].m = BigZero
       /\ alts[Len(alts)].m = MaxAltDouble.m
       /\ alts[Len(alts)].e = MaxAltDouble.e
       /\ \A i \in 1..Len(alts) : InDomain(alts[i])

\* the wind stream is drawn from twice per layer, speed first, in layer order,
\* and by nothing else
WindDrawsInOrder ==
    /\ \A k \in 1..Len(draws) :
          draws[k] = <<(k + 1) \div 2, IF k % 2 = 1 THEN "spd" ELSE "dirn">>
    /\ Len(draws) = 2 * Len(spd)
    /\ Len(draws) <= 2 * args.nlayers
    /\ pc \notin {"start", "aborted"} =>
          rng = AdvanceBy(BaseDeviate(args.seed), Len(draws))
    /\ pc = "fig" => Len(draws) = 2 * args.nlayers

SameOutcome ==
    /\ spd = prev[1].spd
    /\ dirn = prev[1].dirn
    /\ draws = prev[1].draws

BothProfiled == prev # <<>> /\ prev[1].pc = "fig" /\ pc = "fig"

\* C6 as stated: two invocations with the same seed and the same layer count
\* draw in the same order and end with the same speeds and directions (said
\* here of the layer counts of two and more).
C6_DeterministicInSeedAndLayers ==
    /\ WindDrawsInOrder
    /\ (/\ BothProfiled
        /\ args.nlayers >= 2
        /\ prev[1].args.seed = args.seed
        /\ prev[1].args.nlayers = args.nlayers) => SameOutcome

\* C6 as amended: two invocations with the same seed, the same layer count
\* and the same max_speed draw in the same order (speed, then direction, per
\* layer; 2*nlayers draws and no others) and end with the same speeds and
\* directions.
C6_DeterministicWind ==
    /\ WindDrawsInOrder
    /\ (/\ BothProfiled
        /\ prev[1].args.seed = args.seed
        /\ prev[1].args.nlayers = args.nlayers
        /\ prev[1].args.max_speed = args.max_speed) => SameOutcome

C6_Witness ==
    /\ BothProfiled
    /\ prev[1].args.seed = args.seed
    /\ prev[1].args.nlayers = args.nlayers
    /\ prev[1].args.max_speed = args.max_speed
    /\ prev[1].args.turb_factor # args.turb_factor
    /\ args.nlayers >= 2
    /\ Len(draws) = 2 * args.nlayers
    /\ SameOutcome

\* C7: every screen stack is built on a stream in the state the secondary
\* seed (seed + 1) gives, whatever earlier iterations drew from theirs, and
\* from the same per-layer lists; the wind stream is not drawn from once the
\* profile is complete.
C7_StreamsStaySeparate ==
    /\ \A i \in 1..Len(built) :
          /\ built[i].rng = BaseDeviate(args.seed + 1)
          /\ built[i].r0_500 = r0_500
          /\ built[i].speed = spd
          /\ built[i].direction = dirn
          /\ built[i].altitude = alts
          /\ built[i] = built[1]
    /\ (pc \notin {"start", "alts", "interp", "renorm", "wind", "aborted"}
        \/ built # <<>>) =>
          /\ Len(draws) = 2 * args.nlayers
          /\ rng = AdvanceBy(BaseDeviate(args.seed), 2 * args.nlayers)

\* the fourth stack has been built on the fresh state although the stream of
\* the third had been advanced
C7_Witness ==
    /\ Len(built) = NumCols
    /\ args.nlayers >= 2
    /\ pc = "renderA"
    /\ atmRng # BaseDeviate(args.seed + 1)
    /\ built[NumCols].rng = BaseDeviate(args.seed + 1)
    /\ kcrits[1] # kcrits[NumCols]

\* C8: once the sweep is complete the figure is written to the configured
\* path, the parent directory being created when it is absent, whatever the
\* shape of the path; the run ends in an error only when the directory cannot
\* be created (or the file cannot be written), and then without the file
\* (said here of the layer counts of two and more).
C8_FigureIsPersisted ==
    /\ pc = "done" => args.outfile \in files
    /\ (pc = "aborted" /\ SweepComplete /\ args.nlayers >= 2) =>
          /\ err \in {"PermissionError", "OSError"}
          /\ args.outfile \notin files

\* C9: the steps of the sweep are taken in the order build, render A,
\* render B, measure A, measure B, collect, column after column; the
\* directory is created and the file saved only after the last collect; a
\* run that a fatal error ends during the sweep has created no directory and
\* written no file.
C9_SequentialSweep ==
    /\ \A i \in 1..Len(steps) :
          /\ steps[i].icol = (i - 1) \div StepsPerColumn
          /\ steps[i].step = StepNames[((i - 1) % StepsPerColumn) + 1]
    /\ Len(steps) <= StepsPerColumn * NumCols
    /\ pc \in {"labels", "mkdir", "save", "done"} => SweepComplete
    /\ pc \in {"renderA", "renderB", "measureA", "measureB", "collect"} =>
          StepNames[((Len(steps) - 1) % StepsPerColumn) + 2] = pc
    /\ (pc = "build" /\ steps # <<>>) => LastStep = "collect"
    /\ ~SweepComplete => made = {} /\ files = {}
    /\ (pc = "aborted" /\ err = "GalSimError") =>
          /\ made = {}
          /\ files = {}
          /\ ~SweepComplete

\* the third column's render fails: nothing has been created or written
C9_Witness ==
    /\ pc = "aborted"
    /\ args.nlayers >= 2
    /\ err = "GalSimError"
    /\ Len(steps) > 2 * StepsPerColumn
    /\ LastStep = "renderA"
    /\ Dirname(args.outfile) \notin dirs
    /\ made = {}
    /\ files = {}

\* the two images of a collected column agree in everything but the method
MatchedOptics(a, b) ==
    /\ a.lam = b.lam
    /\ a.diam = b.diam
    /\ a.obscuration = b.obscuration
    /\ a.nx = b.nx
    /\ a.ny = b.ny
    /\ a.scale = b.scale
    /\ a.kcrit = b.kcrit
    /\ a.r0 = b.r0

\* the net turbulence of the layers, sum of r0_i^(-5/3), is f times that of
\* the Fried parameter r
NetTurbulenceIs(layers, r, f) ==
    /\ \A i \in 1..Len(layers) :
          /\ ~layers[i].nan
          /\ layers[i].base = r.base
          /\ layers[i].sfd = layers[1].sfd
    /\ SumSfn(layers) = f * layers[1].sfd

\* C10 as stated: for every turb_factor the two images of a sweep point are
\* rendered with the same optics, image grid and cutoff, and the net Fried
\* parameter of the layers equals the one given to the analytic
\* approximation.
C10_MatchedForEveryTurbFactor ==
    \A c \in 1..NumCols :
        (args.nlayers >= 2 /\ Taken(c - 1, "collect")) =>
           /\ MatchedOptics(axes[1][c].img[1], axes[2][c].img[1])
           /\ NetTurbulenceIs(axes[1][c].img[1].layers, axes[2][c].img[1].r0, 1)

\* C10 as amended: the two images of a sweep point are rendered with the same
\* wavelength, aperture, obscuration, image grid, pixel scale and cutoff,
\* and the cutoff is converted with the Fried parameter given to the
\* analytic approximation; the net turbulence of the layers is turb_factor
\* times that of this Fried parameter, so the net Fried parameters agree
\* when turb_factor = 1.
C10_MatchedUpToTurbFactor ==
    \A c \in 1..NumCols :
        (args.nlayers >= 2 /\ Taken(c - 1, "collect")) =>
           /\ MatchedOptics(axes[1][c].img[1], axes[2][c].img[1])
           /\ NetTurbulenceIs(axes[1][c].img[1].layers, axes[2][c].img[1].r0,
                              args.turb_factor)

C10_Witness ==
    /\ pc = "done"
    /\ args.nlayers >= 2
    /\ args.turb_factor = 1
    /\ \A c \in 1..NumCols :
          NetTurbulenceIs(axes[1][c].img[1].layers, axes[2][c].img[1].r0, 1)

=============================================================================
